---- MODULE Spec2Model ----
(***************************************************************************)
(* Focus navigation of bevy-ui-navigation: the resolution algorithm of     *)
(* src/src/resolve.rs (resolve, update_focus, set_first_focused,           *)
(* listen_nav_requests) over small concrete menu graphs.                   *)
(*                                                                         *)
(* Entities are positive integers, 0 stands for Option::None.  Queries     *)
(* iterate in increasing entity order, and the Children component lists    *)
(* the children in increasing entity order.                                *)
(***************************************************************************)
EXTENDS Integers, Sequences, FiniteSets, TLC

\* ------------------------------------------------------------------ bounds
\* Largest number of NavRequest events read by listen_nav_requests in a tick.
MaxQueue == 2
\* Largest number of focusables constructed with Focusable::prioritized().
MaxInitPrioritized == 1
\* Largest number of focusables constructed with Focusable::blocked().
MaxInitBlocked == 1
\* Longest breadcrumb given to trim_common_tail on its own, and the largest
\* entity in it.
MaxBreadcrumb == 3
MaxCrumb == 3
\* Number of focusables of the 2d menu resolve_2d is called on.
PlaneSize == 3
MaxSiblings == 4

\* ------------------------------------------------------------ menu graphs
\* A graph is the entity hierarchy the host application spawned:
\*   n       number of entities, Ents = 1..n
\*   parent  the Parent component (0: no parent)
\*   kind    "focusable" (has Focusable), "menu" (has TreeMenu and MenuSetting),
\*           "plain" (neither)
\*   fp      TreeMenu::focus_parent of the menus (0: None)
\*   scope   MenuSetting is a scope menu
\*   wrap    MenuSetting wraps (not bound)
\*   action  Focusable::action
\*   pos     GlobalTransform translation xy
\*   bnd     the ScreenBoundaries resource is present
\*   edges   the value of the ScreenBoundaries resource

\* A ScreenBoundaries resource maintained by the application, for a camera
\* whose borders lie on both sides of its position.
ScreenBoundaries ==
  [position |-> <<0, 0>>, min |-> <<-25, -15>>, max |-> <<35, 5>>, scale |-> 1]
\* The ScreenBoundaries resource maintained by the system update_boundaries.
UpdatedBoundaries ==
  [position |-> <<0, 0>>, min |-> <<0, 0>>, max |-> <<30, 30>>, scale |-> 1]

\* An acyclic tree of menus: scope root menu 1 {2,3}; 2d menu 4 {6, 7 inside
\* the plain node 5} reachable from 2; wrapping 2d menu 8 {9 cancel, 10 lock}
\* reachable from 7.
TreeGraph ==
  [ n      |-> 10,
    parent |-> <<0, 1, 1, 0, 4, 4, 5, 0, 8, 8>>,
    kind   |-> <<"menu", "focusable", "focusable", "menu", "plain",
                 "focusable", "focusable", "menu", "focusable", "focusable">>,
    fp     |-> <<0, 0, 0, 2, 0, 0, 0, 7, 0, 0>>,
    scope  |-> {1},
    wrap   |-> {1, 8},
    action |-> <<"-", "Normal", "Normal", "-", "-", "Normal", "Normal", "-",
                 "Cancel", "Lock">>,
    pos    |-> << <<0, 0>>, <<0, 0>>, <<10, 0>>, <<0, 0>>, <<0, 0>>,
                  <<0, 0>>, <<0, -10>>, <<0, 0>>, <<0, 0>>, <<10, 0>> >>,
    bnd    |-> TRUE,
    edges  |-> ScreenBoundaries ]

\* Focusables 1 and 2 outside of any menu, next to a 2d menu 3 {4,5} reachable
\* from 2 and a closed scope menu 6 {7,8} reachable from 4.
MixedGraph ==
  [ n      |-> 8,
    parent |-> <<0, 0, 0, 3, 3, 0, 6, 6>>,
    kind   |-> <<"focusable", "focusable", "menu", "focusable", "focusable",
                 "menu", "focusable", "focusable">>,
    fp     |-> <<0, 0, 2, 0, 0, 4, 0, 0>>,
    scope  |-> {6},
    wrap   |-> {},
    action |-> <<"Normal", "Lock", "-", "Normal", "Normal", "-", "Normal", "Cancel">>,
    pos    |-> << <<0, 0>>, <<10, 0>>, <<0, 0>>, <<20, 0>>, <<20, -10>>,
                  <<0, 0>>, <<30, 0>>, <<30, -10>> >>,
    bnd    |-> FALSE,
    edges  |-> ScreenBoundaries ]

\* A misconfigured graph: menu 2 {3,4} is reachable from 6 and menu 5 {6,7} is
\* reachable from 4, next to a focusable 1 outside of any menu.  Menu 2 is a
\* wrapping scope menu.
CyclicScopeGraph ==
  [ n      |-> 7,
    parent |-> <<0, 0, 2, 2, 0, 5, 5>>,
    kind   |-> <<"focusable", "menu", "focusable", "focusable", "menu",
                 "focusable", "focusable">>,
    fp     |-> <<0, 6, 0, 0, 4, 0, 0>>,
    scope  |-> {2},
    wrap   |-> {2},
    action |-> <<"Normal", "-", "Normal", "Normal", "-", "Normal", "Normal">>,
    pos    |-> << <<0, 0>>, <<0, 0>>, <<10, 0>>, <<10, -10>>, <<0, 0>>,
                  <<20, 0>>, <<20, -10>> >>,
    bnd    |-> TRUE,
    edges  |-> ScreenBoundaries ]

\* The same misconfigured graph with two 2d menus.
Cyclic2dGraph == [CyclicScopeGraph EXCEPT !.scope = {}, !.wrap = {}]

Graphs == {TreeGraph, MixedGraph, CyclicScopeGraph, Cyclic2dGraph}

\* Tree { last_branch_version: BranchVersion(0), branches: Vec::new() }, the
\* tree before its first branch; tree stays so where the generic crate is idle.
NoTree == [last_branch_version |-> 0, branches |-> <<>>]

VARIABLES
  graph,            \* the graph the application spawned, one of Graphs
  state,            \* Focusable::state of every focusable
  active_child,     \* TreeMenu::active_child of every menu
  lock_reason,      \* NavLock::lock_reason
  phase,            \* position in the frame: "idle", "first", "listen"
  unread,           \* NavRequest events listen_nav_requests has yet to read
  handled,          \* NavRequest events it has read in this frame
  computed_focused, \* listen_nav_requests' local computed_focused
  request,          \* the request read last
  event,            \* the NavEvent sent last, NoEvent when none was sent
  halted,           \* "no": running; else how the program stopped
  first_set,        \* a first focus has been set
  locked_at,        \* state and active_child at the time the lock was taken
  input,            \* the arguments of a function called on its own
  output,           \* what it returned
  applied,          \* it has been called
  tree,             \* the generic Tree such calls work on, NoTree without
  branch_ids        \* the BranchIds the tree has handed out so far

vars == <<graph, state, active_child, lock_reason, phase, unread, handled,
          computed_focused, request, event, halted, first_set, locked_at,
          input, output, applied, tree, branch_ids>>
called == <<input, output, applied, tree, branch_ids>>

G == graph
Ents == 1..G.n
Focusables == {e \in Ents : G.kind[e] = "focusable"}
Menus == {e \in Ents : G.kind[e] = "menu"}

\* ---------------------------------------------------------------- helpers
RECURSIVE SortedSeq(_)
Min(S) == CHOOSE x \in S : \A y \in S : x <= y
SortedSeq(S) ==
  IF S = {} THEN <<>> ELSE <<Min(S)>> \o SortedSeq(S \ {Min(S)})

Contains(s, e) == \E i \in 1..Len(s) : s[i] = e

\* The first element of s, 0 (None) if s is empty.
First(s) == IF s = <<>> THEN 0 ELSE s[1]

RECURSIVE SelectInSeq(_, _)
\* The elements of s that are in S, in the order of s.
SelectInSeq(s, S) ==
  IF s = <<>> THEN <<>>
  ELSE (IF Head(s) \in S THEN <<Head(s)>> ELSE <<>>) \o SelectInSeq(Tail(s), S)

\* The Children component of e.
ChildrenOf(e) == SortedSeq({c \in Ents : G.parent[c] = e})

\* ------------------------------------------------------- graph queries
\* NavQueries::parent_menu: the menu containing e, 0 if none.
RECURSIVE parent_menu(_)
parent_menu(e) ==
  IF G.parent[e] = 0 THEN 0
  ELSE IF G.parent[e] \in Menus THEN G.parent[e]
  ELSE parent_menu(G.parent[e])

\* ChildQueries::focusables_of: the sibling focusables within a menu, the
\* direct ones first, then those found through children that are neither a
\* focusable nor a menu.
RECURSIVE focusables_of(_, _)
RECURSIVE FlatMapFocusablesOf(_, _)
FlatMapFocusablesOf(s, st) ==
  IF s = <<>> THEN <<>>
  ELSE focusables_of(Head(s), st) \o FlatMapFocusablesOf(Tail(s), st)
FocusablesAmong(direct_children, st) ==
  SelectInSeq(direct_children, {e \in Focusables : st[e] # "Blocked"})
    \o FlatMapFocusablesOf(
         SelectInSeq(direct_children, Ents \ (Focusables \cup Menus)), st)
focusables_of(menu, st) == FocusablesAmong(ChildrenOf(menu), st)

\* A faulty child_menu that never finds a menu.
child_menu_none(focusable) == 0
\* child_menu: the first menu whose focus_parent is focusable, 0 if none.
child_menu(focusable) == First(SortedSeq({m \in Menus : G.fp[m] = focusable}))

\* MenuSetting of a menu.
is_scope(menu) == menu \in G.scope
\* A faulty setting under which every menu is a 2d menu.
is_2d_always(menu) == TRUE
is_2d(menu) == ~is_scope(menu)
cycles_of(menu) == menu \in G.wrap

\* NavQueries::root_path: the breadcrumb of from, following focus_parent.
\* ok = FALSE stands for the "Navigation graph cycle detected!" panic.
RECURSIVE RootPathLoop(_, _)
RECURSIVE RootPathVia(_, _)
RootPathVia(menu, ret) ==
  IF menu = 0 \/ G.fp[menu] = 0 THEN [ok |-> TRUE, path |-> ret]
  ELSE IF Contains(ret, G.fp[menu]) THEN [ok |-> FALSE, path |-> ret]
  ELSE RootPathLoop(G.fp[menu], Append(ret, G.fp[menu]))
RootPathLoop(from, ret) == RootPathVia(parent_menu(from), ret)
root_path(from) == RootPathLoop(from, <<from>>)

\* focus_deep: the chain of active_child below menu, deepest first.
\* The loop of the code has no exit when it comes back to a menu it has been
\* through, since nothing it reads changes: ok = FALSE stands for that.
RECURSIVE FocusDeepLoop(_, _, _, _)
RECURSIVE FocusDeepNext(_, _, _, _)
FocusDeepNext(next, ac, ret, seen) ==
  IF next = 0 THEN [ok |-> TRUE, path |-> ret]
  ELSE IF next \in seen THEN [ok |-> FALSE, path |-> ret]
  ELSE FocusDeepLoop(next, ac, ret, seen)
FocusDeepLoop(menu, ac, ret, seen) ==
  FocusDeepNext(child_menu(ac[menu]), ac, <<ac[menu]>> \o ret, seen \cup {menu})
\* A faulty focus_deep that does not go down the menus.
focus_shallow(menu, ac) == [ok |-> TRUE, path |-> <<>>]
focus_deep(menu, ac) == FocusDeepLoop(menu, ac, <<>>, {})

\* trim_common_tail: remove the mutually identical elements at the end of v1
\* and v2 (indices are 1-based here, 0-based in the code).
RECURSIVE TrimLoop(_, _, _, _)
TrimLoop(v1, v2, i1, i2) ==
  IF v1[i1] # v2[i2] THEN <<SubSeq(v1, 1, i1), SubSeq(v2, 1, i2)>>
  ELSE IF i1 # 1 /\ i2 # 1 THEN TrimLoop(v1, v2, i1 - 1, i2 - 1)
  ELSE <<v1, v2>>
\* A faulty trim_common_tail that truncates nothing.
trim_nothing(v1, v2) == <<v1, v2>>
trim_common_tail(v1, v2) == TrimLoop(v1, v2, Len(v1), Len(v2))

\* A faulty resolve_index that cycles whether or not the menu does.
resolve_index_cycling(from, cycles, direction, max_value) ==
  IF direction = "Previous" /\ from = 0 THEN max_value
  ELSE IF direction = "Previous" THEN from - 1
  ELSE IF from = max_value THEN 0
  ELSE from + 1
\* resolve_index: the 0-based index to focus in a scope menu, -1 for None.
resolve_index(from, cycles, direction, max_value) ==
  IF direction = "Previous" /\ from = 0 THEN (IF cycles THEN max_value ELSE -1)
  ELSE IF direction = "Previous" THEN from - 1
  ELSE IF from = max_value THEN (IF cycles THEN 0 ELSE -1)
  ELSE from + 1

\* resolve_scope: the next or previous sibling, 0 for None.
Position(siblings, focused) ==
  (CHOOSE i \in 1..Len(siblings) :
     /\ siblings[i] = focused
     /\ \A j \in 1..(i - 1) : siblings[j] # focused) - 1
Get(siblings, index) ==
  IF index < 0 \/ index >= Len(siblings) THEN 0 ELSE siblings[index + 1]
resolve_scope(focused, direction, cycles, siblings) ==
  IF ~Contains(siblings, focused) THEN 0
  ELSE Get(siblings, resolve_index(Position(siblings, focused), cycles, direction,
                                   Len(siblings) - 1))

\* ------------------------------------------------------------ 2d movement
\* A faulty test that looks up whatever the direction.
InQuadrantAbove(direction, x, y) == y > x /\ y > -x
\* Direction::is_in: other is in the quadrant of direction seen from reference.
InQuadrant(direction, x, y) ==
  CASE direction = "South" -> y < x /\ y < -x
    [] direction = "North" -> y > x /\ y > -x
    [] direction = "East" -> y < x /\ y > -x
    [] direction = "West" -> y > x /\ y < -x
is_in(direction, reference, other) ==
  InQuadrant(direction, other[1] - reference[1], other[2] - reference[2])

distance_squared(p, q) ==
  (p[1] - q[1]) * (p[1] - q[1]) + (p[2] - q[2]) * (p[2] - q[2])

\* Iterator::max_by_key(|s| FloatOrd(-distance_squared)): the last of the
\* elements of s closest to p, 0 if s is empty.
DistTo(p, e) == distance_squared(p, G.pos[e])
\* A faulty search that takes the first sibling, whatever its distance.
FirstOf(p, s) == IF s = <<>> THEN 0 ELSE s[1]
ClosestTo(p, s) ==
  IF s = <<>> THEN 0
  ELSE s[CHOOSE i \in 1..Len(s) :
           /\ \A j \in 1..Len(s) : DistTo(p, s[i]) <= DistTo(p, s[j])
           /\ \A j \in (i + 1)..Len(s) : DistTo(p, s[j]) > DistTo(p, s[i])]

RECURSIVE InDirection(_, _, _)
InDirection(s, direction, focused) ==
  IF s = <<>> THEN <<>>
  ELSE (IF is_in(direction, G.pos[focused], G.pos[Head(s)]) /\ Head(s) # focused
        THEN <<Head(s)>> ELSE <<>>) \o InDirection(Tail(s), direction, focused)

\* The point of the screen edge the search starts from when wrapping.
EdgePos(direction, focused_pos, b) ==
  CASE direction = "South" ->
         <<focused_pos[1], b.position[2] - b.scale * b.min[2]>>
    [] direction = "North" ->
         <<focused_pos[1], b.position[2] + b.scale * b.max[2]>>
    [] direction = "East" ->
         <<b.position[1] - b.min[1] * b.scale, focused_pos[2]>>
    [] direction = "West" ->
         <<b.position[1] + b.max[1] * b.scale, focused_pos[2]>>

\* UiProjectionQuery::resolve_2d: the sibling reached from focused in
\* direction, 0 for None.
\* A faulty resolve_2d that wraps around edges it does not know.
WrappedBlindly(closest, focused, direction, cycles, siblings) ==
  IF closest = 0 /\ cycles
  THEN ClosestTo(EdgePos(direction, G.pos[focused], G.edges), siblings)
  ELSE closest
Wrapped(closest, focused, direction, cycles, siblings) ==
  IF closest = 0 /\ cycles
  THEN (IF G.bnd
        THEN ClosestTo(EdgePos(direction, G.pos[focused], G.edges), siblings)
        ELSE 0)
  ELSE closest
resolve_2d(focused, direction, cycles, siblings) ==
  Wrapped(ClosestTo(G.pos[focused], InDirection(siblings, direction, focused)),
          focused, direction, cycles, siblings)

\* ------------------------------------------------ requests, events, lock
\* NavRequest.  dir is the Direction of Move or the ScopeDirection of
\* ScopeMove, target the entity of FocusOn.
Req(kind, dir, target) == [kind |-> kind, dir |-> dir, target |-> target]
NoRequest == Req("None", "-", 0)
Directions == {"North", "South", "East", "West"}
ScopeDirections == {"Next", "Previous"}
AllEnts == UNION {1..g.n : g \in Graphs}
NavRequests ==
  {Req("Move", d, 0) : d \in Directions}
    \cup {Req("ScopeMove", d, 0) : d \in ScopeDirections}
    \cup {Req(k, "-", 0) : k \in {"Action", "Cancel", "Lock", "Unlock"}}
    \cup {Req("FocusOn", "-", t) : t \in AllEnts}

\* LockReason, NoLock for a NavLock that is not locked.
NoLock == [kind |-> "None", e |-> 0]
LockNavRequest == [kind |-> "NavRequest", e |-> 0]
\* A faulty reason that does not record the lock focusable.
LockFocusableUnnamed(e) == [kind |-> "Focusable", e |-> 0]
LockFocusable(e) == [kind |-> "Focusable", e |-> e]

\* NavEvent.  Two more types stand for a call that returns no event: "Panic"
\* (an assert! of the resolution failed) and "Hang" (a loop without exit).
Ev(type, from, to, req, reason) ==
  [type |-> type, from |-> from, to |-> to, request |-> req, reason |-> reason]
NoEvent == Ev("None", <<>>, <<>>, NoRequest, NoLock)
FocusChanged(to, from) == Ev("FocusChanged", from, to, NoRequest, NoLock)
NoChanges(from, req) == Ev("NoChanges", from, <<>>, req, NoLock)
Locked(reason) == Ev("Locked", <<>>, <<>>, NoRequest, reason)
\* A faulty Unlocked that carries no reason.
UnlockedUnnamed(reason) == Ev("Unlocked", <<>>, <<>>, NoRequest, NoLock)
Unlocked(reason) == Ev("Unlocked", <<>>, <<>>, NoRequest, reason)
InitiallyFocused(e) == Ev("InitiallyFocused", <<>>, <<e>>, NoRequest, NoLock)
Panic == Ev("Panic", <<>>, <<>>, NoRequest, NoLock)
Hang == Ev("Hang", <<>>, <<>>, NoRequest, NoLock)

\* ------------------------------------------------------------- resolution
\* The result of resolve: the event, and the NavLock it leaves.
Res(ev, lock) == [ev |-> ev, lock |-> lock]

\* Faulty siblings that leave out the focusables of the menus.
MoveSiblingsOutside(menu, st) ==
  IF menu # 0 THEN focusables_of(menu, st)
  ELSE SortedSeq({e \in Focusables : st[e] # "Blocked" /\ parent_menu(e) = 0})
\* resolve, Move: to is what resolve_2d found among the siblings.
MoveSiblings(menu, st) ==
  IF menu # 0 THEN focusables_of(menu, st)
  ELSE SortedSeq({e \in Focusables : st[e] # "Blocked"})
MoveEvent(to, from, req) ==
  IF to = 0 THEN NoChanges(from, req) ELSE FocusChanged(<<to>>, from)
resolve_move(focused, req, st, from, menu) ==
  IF menu # 0 /\ ~is_2d(menu) THEN NoChanges(from, req)
  ELSE MoveEvent(resolve_2d(focused, req.dir,
                            IF menu # 0 THEN cycles_of(menu) ELSE TRUE,
                            MoveSiblings(menu, st)),
                 from, req)

\* resolve, ScopeMove in a scope menu: to is what resolve_scope found.
ScopeExtra(menu, ac) ==
  IF menu # 0 THEN focus_deep(menu, ac) ELSE [ok |-> TRUE, path |-> <<>>]
ScopeEvent(to, extra, from, req) ==
  IF to = 0 THEN NoChanges(from, req)
  ELSE IF ~extra.ok THEN Hang
  ELSE FocusChanged(Append(extra.path, to), from)
ScopeTo(to, ac, from, req) ==
  ScopeEvent(to, IF to = 0 THEN [ok |-> TRUE, path |-> <<>>]
                 ELSE ScopeExtra(child_menu(to), ac),
             from, req)
\* A faulty ScopeMove that goes to the next sibling whatever the direction.
resolve_in_scope_next(focused, req, st, ac, from, menu) ==
  ScopeTo(resolve_scope(focused, "Next", cycles_of(menu), focusables_of(menu, st)),
          ac, from, req)
resolve_in_scope(focused, req, st, ac, from, menu) ==
  ScopeTo(resolve_scope(focused, req.dir, cycles_of(menu), focusables_of(menu, st)),
          ac, from, req)

\* resolve, FocusOn: rfrom and rto are the root paths of focused and of the
\* target.
FocusOnEvent(trimmed, req) ==
  IF trimmed[1] = trimmed[2] THEN NoChanges(trimmed[1], req)
  ELSE FocusChanged(trimmed[2], trimmed[1])
FocusOnPaths(rfrom, rto, req) ==
  IF ~rfrom.ok \/ ~rto.ok THEN Panic
  ELSE FocusOnEvent(trim_common_tail(rfrom.path, rto.path), req)

\* A faulty Lock that locks again a NavLock that is locked.
resolve_lock_again(req, lock, from) ==
  Res(Locked(LockNavRequest), LockNavRequest)
\* resolve: the event created by req where the focused element is focused,
\* with the NavLock it leaves.
resolve_lock(req, lock, from) ==
  IF lock # NoLock THEN Res(NoChanges(from, req), lock)
  ELSE Res(Locked(LockNavRequest), LockNavRequest)
\* A faulty Unlock that emits Unlocked and leaves the NavLock locked.
resolve_unlock_keeps(req, lock, from) ==
  IF lock # NoLock THEN Res(Unlocked(lock), lock)
  ELSE Res(NoChanges(from, req), lock)
resolve_unlock(req, lock, from) ==
  IF lock # NoLock THEN Res(Unlocked(lock), NoLock)
  ELSE Res(NoChanges(from, req), lock)
\* A faulty truncate that keeps the whole vector.
truncate_nothing(v, len) == v
\* Vec::truncate: the first len elements of v.
truncate(v, len) == SubSeq(v, 1, len)
RECURSIVE resolve(_, _, _, _, _, _)
resolve_from(focused, req, st, ac, lock, from, menu) ==
  CASE req.kind = "Lock" -> resolve_lock(req, lock, from)
    [] req.kind = "Move" -> Res(resolve_move(focused, req, st, from, menu), lock)
    [] req.kind = "Cancel" ->
         IF menu = 0 \/ G.fp[menu] = 0 THEN Res(NoChanges(from, req), lock)
         ELSE Res(FocusChanged(<<G.fp[menu]>>, Append(from, G.fp[menu])), lock)
    [] req.kind = "Action" ->
         IF G.action[focused] = "Cancel"
         THEN resolve(focused, Req("Cancel", "-", 0), st, ac, lock,
                      truncate(from, Len(from) - 1))
         ELSE IF G.action[focused] = "Lock"
         THEN Res(Locked(LockFocusable(focused)), LockFocusable(focused))
         ELSE IF child_menu(focused) = 0 THEN Res(NoChanges(from, req), lock)
         ELSE Res(FocusChanged(<<ac[child_menu(focused)]>> \o from, from), lock)
    [] req.kind = "ScopeMove" ->
         IF menu = 0 THEN Res(NoChanges(from, req), lock)
         ELSE IF ~is_scope(menu)
         THEN (IF G.fp[menu] = 0 THEN Res(NoChanges(from, req), lock)
               ELSE resolve(G.fp[menu], req, st, ac, lock, from))
         ELSE Res(resolve_in_scope(focused, req, st, ac, from, menu), lock)
    [] req.kind = "FocusOn" ->
         Res(FocusOnPaths(root_path(focused), root_path(req.target), req), lock)
    [] req.kind = "Unlock" -> resolve_unlock(req, lock, from)
\* A faulty resolve that lists the elements it goes through in reverse.
resolve_prepending(focused, req, st, ac, lock, from) ==
  IF focused \notin Focusables \/ Contains(from, focused) THEN Res(Panic, lock)
  ELSE resolve_from(focused, req, st, ac, lock, <<focused>> \o from,
                    parent_menu(focused))
resolve(focused, req, st, ac, lock, from) ==
  IF focused \notin Focusables \/ Contains(from, focused) THEN Res(Panic, lock)
  ELSE resolve_from(focused, req, st, ac, lock, Append(from, focused),
                    parent_menu(focused))

\* ---------------------------------------------------------------- mutator
\* A faulty set_entity_focus that leaves the state as it is.
set_entity_focus_never(s, entity, new) == s
\* MutQueries::set_entity_focus on the pair s = [st, ac].
set_entity_focus(s, entity, new) ==
  IF entity \in Focusables THEN [s EXCEPT !.st[entity] = new] ELSE s

\* MutQueries::set_active_child: child becomes the active_child of its
\* enclosing menu, the previous one becomes Inert.
SetActiveChildOf(s, menu, child) ==
  IF menu = 0 THEN s
  ELSE set_entity_focus([s EXCEPT !.ac[menu] = child], s.ac[menu], "Inert")
\* A faulty set_active_child that forgets the child.
set_active_child_never(s, child) == s
set_active_child(s, child) == SetActiveChildOf(s, parent_menu(child), child)

\* A faulty update_focus that leaves the elements of from below its last one
\* as they were.
PutToSleepNothing(s, entities) == s
RECURSIVE PutToSleep(_, _)
PutToSleep(s, entities) ==
  IF entities = <<>> THEN s
  ELSE PutToSleep(set_entity_focus(s, Head(entities), "Prioritized"), Tail(entities))

RECURSIVE Activate(_, _)
Activate(s, entities) ==
  IF entities = <<>> THEN s
  ELSE Activate(set_entity_focus(set_active_child(s, Head(entities)),
                                 Head(entities), "Active"),
                Tail(entities))

\* MutQueries::update_focus: the states and active_child after the focus
\* went from the breadcrumb from to the breadcrumb to, with the entity it
\* returns as the new focus.
\* A faulty update_focus that never resets the elements of from.
DisableNothing(s, from) == s
Disable(s, from) ==
  IF from = <<>> THEN s
  ELSE PutToSleep(set_entity_focus(s, from[Len(from)], "Inert"),
                  SubSeq(from, 1, Len(from) - 1))
Focus(s, to) ==
  Activate(set_entity_focus(set_active_child(s, to[1]), to[1], "Focused"), Tail(to))
Returning(s, focus) == [st |-> s.st, ac |-> s.ac, focus |-> focus]
\* A faulty update_focus that returns the previous focus.
update_focus_stale(from, to, st, ac) ==
  IF to = from \/ from = <<>> THEN [st |-> st, ac |-> ac, focus |-> to[1]]
  ELSE Returning(Focus(Disable([st |-> st, ac |-> ac], from), to), from[1])
update_focus(from, to, st, ac) ==
  IF to = from THEN [st |-> st, ac |-> ac, focus |-> to[1]]
  ELSE Returning(Focus(Disable([st |-> st, ac |-> ac], from), to), to[1])

\* ---------------------------------------------------------- initial focus
\* NavQueries::active_menu: follow the Active active_child down from the menu
\* entity; <<0, 0>> for None.
RECURSIVE ActiveMenuLoop(_, _, _, _, _)
ActiveMenuLoop(entity, child, repeated, st, ac) ==
  IF child \in Focusables /\ st[child] = "Active" /\ child_menu(child) # 0
  THEN ActiveMenuLoop(child_menu(child), ac[child_menu(child)], TRUE, st, ac)
  ELSE IF repeated THEN <<entity, child>> ELSE <<0, 0>>
active_menu(entity, child, st, ac) == ActiveMenuLoop(entity, child, FALSE, st, ac)

\* NavQueries::pick_first_focused, 0 for None.
OrElse(a, b) == IF a # 0 THEN a ELSE b
any_in_menu(entity, child, st) ==
  IF child \in Focusables THEN child ELSE First(focusables_of(entity, st))
AnyInActive(active, st) ==
  IF active[1] = 0 THEN 0 ELSE any_in_menu(active[1], active[2], st)
PickAmong(iter_focused, root_menu, st, ac) ==
  OrElse(First(SelectInSeq(iter_focused, {f \in Focusables : st[f] = "Focused"})),
  OrElse(IF root_menu = 0 THEN 0
         ELSE AnyInActive(active_menu(root_menu, ac[root_menu], st, ac), st),
  OrElse(First(SelectInSeq(iter_focused, {f \in Focusables : st[f] # "Inert"})),
  OrElse(IF root_menu = 0 THEN 0 ELSE any_in_menu(root_menu, ac[root_menu], st),
         First(iter_focused)))))
\* A faulty pick_first_focused that takes the first focusable there is.
pick_any(st, ac) == First(SortedSeq({f \in Focusables : st[f] # "Blocked"}))
pick_first_focused(st, ac) ==
  PickAmong(SortedSeq({f \in Focusables : st[f] # "Blocked"}),
            First(SortedSeq({m \in Menus : G.fp[m] = 0})), st, ac)

\* insert_tree_menus: the active_child given to every menu when its TreeMenu
\* is inserted, 0 where the menu has no focusable (the expect() panics).
FirstChild(children, st) ==
  OrElse(First(SelectInSeq(children,
           {f \in Focusables : st[f] \in {"Prioritized", "Active", "Focused"}})),
         First(children))
insert_tree_menus(st) == [m \in Menus |-> FirstChild(focusables_of(m, st), st)]

\* ---------------------------------------------------------------- actions
\* The states a focusable can be constructed with: Focusable::new(),
\* Focusable::prioritized(), Focusable::blocked().
InitStates ==
  {st \in [Focusables -> {"Inert", "Prioritized", "Blocked"}] :
     /\ Cardinality({f \in Focusables : st[f] = "Prioritized"}) <= MaxInitPrioritized
     /\ Cardinality({f \in Focusables : st[f] = "Blocked"}) <= MaxInitBlocked}

NotLocked == [st |-> <<>>, ac |-> <<>>, focused |-> 0]

Init ==
  /\ graph \in Graphs
  /\ state \in InitStates
  /\ active_child = insert_tree_menus(state)
  /\ lock_reason = NoLock
  /\ phase = "idle"
  /\ unread = 0
  /\ handled = 0
  /\ computed_focused = 0
  /\ request = NoRequest
  /\ event = NoEvent
  /\ halted = IF \E m \in Menus : insert_tree_menus(state)[m] = 0
              THEN "no_focusable" ELSE "no"
  /\ first_set = FALSE
  /\ locked_at = NotLocked
  /\ input = <<>>
  /\ output = <<>>
  /\ applied = FALSE
  /\ tree = NoTree
  /\ branch_ids = {}

\* The input systems send n NavRequest events for the frame that starts.
SendRequests(n) ==
  /\ halted = "no"
  /\ phase = "idle"
  /\ unread' = n
  /\ handled' = 0
  /\ phase' = "first"
  /\ request' = NoRequest
  /\ event' = NoEvent
  /\ locked_at' = IF lock_reason = NoLock THEN NotLocked ELSE locked_at
  /\ UNCHANGED <<graph, state, active_child, lock_reason, computed_focused,
                 halted, first_set, called>>

\* The system set_first_focused, run before listen_nav_requests.
FirstFocusApply(to_focus, s) ==
  /\ state' = s.st
  /\ active_child' = s.ac
  /\ event' = InitiallyFocused(to_focus)
  /\ first_set' = TRUE
  /\ halted' = halted
FirstFocusOn(to_focus, breadcrumb) ==
  IF ~breadcrumb.ok
  THEN /\ halted' = "panic"
       /\ UNCHANGED <<state, active_child, event, first_set>>
  ELSE FirstFocusApply(to_focus,
                       update_focus(<<>>, breadcrumb.path, state, active_child))
FirstFocus(to_focus) ==
  IF to_focus = 0
  THEN UNCHANGED <<state, active_child, event, halted, first_set>>
  ELSE FirstFocusOn(to_focus, root_path(to_focus))
set_first_focused ==
  /\ halted = "no"
  /\ phase = "first"
  /\ phase' = IF unread = 0 THEN "idle" ELSE "listen"
  /\ computed_focused' = 0
  /\ IF \E f \in Focusables : state[f] = "Focused"
     THEN UNCHANGED <<state, active_child, event, halted, first_set>>
     ELSE FirstFocus(pick_first_focused(state, active_child))
  /\ UNCHANGED <<graph, lock_reason, unread, handled, request, locked_at,
                 called>>

\* A faulty loop that resets the elements of from whatever the event.
AppliedToAny(ev, st, ac) ==
  IF ev.type = "FocusChanged" THEN update_focus(ev.from, ev.to, st, ac)
  ELSE Returning(Disable([st |-> st, ac |-> ac], ev.from), computed_focused)
\* One iteration of the loop of listen_nav_requests: read req, resolve it
\* from the focused element and apply the event.
Applied(ev, st, ac) ==
  IF ev.type = "FocusChanged" THEN update_focus(ev.from, ev.to, st, ac)
  ELSE [st |-> st, ac |-> ac, focus |-> computed_focused]
ListenApply(focused, r, s) ==
  /\ state' = s.st
  /\ active_child' = s.ac
  /\ lock_reason' = r.lock
  /\ computed_focused' = s.focus
  /\ event' = r.ev
  /\ unread' = unread - 1
  /\ phase' = IF unread = 1 THEN "idle" ELSE "listen"
  /\ first_set' = (first_set \/ r.ev.type = "FocusChanged")
  /\ locked_at' =
       IF r.ev.type = "Locked"
       THEN [st |-> state, ac |-> active_child, focused |-> focused]
       ELSE IF r.ev.type = "Unlocked" \/ r.lock # NoLock THEN locked_at
       ELSE NotLocked
  /\ halted' = halted
ListenResolved(focused, r) ==
  IF r.ev.type \in {"Panic", "Hang"}
  THEN /\ halted' = IF r.ev.type = "Panic" THEN "panic" ELSE "hang"
       /\ event' = NoEvent
       /\ UNCHANGED <<state, active_child, lock_reason, computed_focused,
                      unread, phase, first_set, locked_at>>
  ELSE ListenApply(focused, r, Applied(r.ev, state, active_child))
ListenFrom(req, focused) ==
  IF focused = 0
  THEN /\ event' = NoEvent
       /\ unread' = 0
       /\ phase' = "idle"
       /\ UNCHANGED <<state, active_child, lock_reason, computed_focused,
                      halted, first_set, locked_at>>
  ELSE ListenResolved(focused,
         resolve(focused, req, state, active_child, lock_reason, <<>>))
\* The focused element a request of the loop is resolved from: the one
\* computed by the previous request of the frame, else pick_first_focused.
focused_of_request ==
  IF computed_focused # 0 THEN computed_focused
  ELSE pick_first_focused(state, active_child)
\* A faulty loop that never looks at the NavLock.
skipped_never(lock, req) == FALSE
\* The requests the loop skips while the NavLock is locked.
skipped(lock, req) == lock # NoLock /\ req.kind # "Unlock"
listen_nav_requests(req) ==
  /\ halted = "no"
  /\ phase = "listen"
  /\ unread > 0
  /\ req.kind = "FocusOn" => req.target \in Focusables
  /\ request' = req
  /\ handled' = handled + 1
  /\ UNCHANGED <<graph, called>>
  /\ IF skipped(lock_reason, req)
     THEN /\ event' = NoEvent
          /\ unread' = unread - 1
          /\ phase' = IF unread = 1 THEN "idle" ELSE "listen"
          /\ UNCHANGED <<state, active_child, lock_reason, computed_focused,
                         halted, first_set, locked_at>>
     ELSE ListenFrom(req, focused_of_request)

Next ==
  \/ \E n \in 0..MaxQueue : SendRequests(n)
  \/ set_first_focused
  \/ \E req \in NavRequests : listen_nav_requests(req)

Spec == Init /\ [][Next]_vars

\* ----------------------------------------------------------------- claims
\* The focus_parent relation is acyclic: root_path passes its assertion for
\* every focusable.
Acyclic == \A f \in Focusables : root_path(f).ok
FocusedSet == {f \in Focusables : state[f] = "Focused"}
ActiveSet == {f \in Focusables : state[f] = "Active"}
RootPathOf(f) == root_path(f).path

\* C1: on an acyclic graph, after any sequence of requests resolved by
\* listen_nav_requests and applied by update_focus, at most one Focusable is
\* Focused.
C1_AtMostOneFocused == Acyclic => Cardinality(FocusedSet) <= 1
\* A request moved the focus to another focusable of an acyclic graph.
C1_Witness ==
  /\ Acyclic
  /\ handled >= 1
  /\ event.type = "FocusChanged"
  /\ event.to[1] # event.from[1]
  /\ state[event.from[1]] # "Focused"
  /\ FocusedSet = {event.to[1]}

\* C2: once a first focus has been set, by set_first_focused or by a first
\* FocusChanged, every later state has exactly one Focused Focusable.
C2_ExactlyOneFocused == first_set => Cardinality(FocusedSet) = 1

C4_RootPathActive ==
  Acyclic =>
    \A f \in FocusedSet :
      \A i \in 2..Len(RootPathOf(f)) : state[RootPathOf(f)[i]] = "Active"

\* One iteration of the loop of listen_nav_requests reads request'.
ListenStep == handled' = handled + 1

\* C5: while the NavLock holds a reason, every request other than Unlock is
\* skipped: it emits no NavEvent and changes no Focusable state, no
\* active_child and not the lock.
C5_LockedSkips ==
  [][(ListenStep /\ lock_reason # NoLock /\ request'.kind # "Unlock")
       => (event' = NoEvent /\ UNCHANGED <<state, active_child, lock_reason>>)]_vars
\* A Move or a FocusOn was read while the NavLock was locked.
C5_Witness ==
  /\ lock_reason # NoLock
  /\ handled >= 1
  /\ request.kind \in {"Move", "FocusOn"}
  /\ event = NoEvent
  /\ halted = "no"

\* C6: from a successful Lock to the Unlock that follows it, whatever
\* requests come in between, the Focusable states and the active_child are
\* those of before the Lock; the Unlock clears the lock, and a Move after it
\* resolves as it would have before the Lock.
C6_LockUnlockRestores ==
  /\ lock_reason # NoLock =>
       (state = locked_at.st /\ active_child = locked_at.ac)
  /\ event.type = "Unlocked" =>
       /\ lock_reason = NoLock
       /\ state = locked_at.st
       /\ active_child = locked_at.ac
       /\ \A d \in Directions :
            resolve(focused_of_request, Req("Move", d, 0), state,
                    active_child, lock_reason, <<>>)
            = resolve(locked_at.focused, Req("Move", d, 0), locked_at.st,
                      locked_at.ac, NoLock, <<>>)
\* An Unlock, read as the second request of its frame, cleared the lock.
C6_Witness ==
  /\ event.type = "Unlocked"
  /\ request.kind = "Unlock"
  /\ lock_reason = NoLock
  /\ handled >= 2
  /\ FocusedSet # {}

\* C7: a Blocked Focusable does not become Focused or Active by any request,
\* a FocusOn that targets it or a focusable below it included.
C7_BlockedNeverFocused ==
  [][ListenStep =>
       \A f \in Focusables :
         state[f] = "Blocked" => state'[f] \notin {"Focused", "Active"}]_vars

\* C8 as stated: of several requests of one frame only the first is resolved
\* and applied, the later ones change no Focusable state and no active_child.
C8_OnlyFirstApplied ==
  [][(ListenStep /\ handled >= 1) => UNCHANGED <<state, active_child>>]_vars
\* C8: every request of a frame is resolved in turn and its FocusChanged
\* applied; on an acyclic graph a later request starts from the Focusable
\* focused by the earlier ones, which is the one Focused Focusable.
C8_EachResolvedInTurn ==
  Acyclic =>
    /\ computed_focused # 0 => FocusedSet = {computed_focused}
    /\ (handled >= 2 /\ event.type = "FocusChanged") =>
         (computed_focused = event.to[1] /\ FocusedSet = {event.to[1]})
\* The second request of a frame moved the focus.
C8_Witness ==
  /\ Acyclic
  /\ handled >= 2
  /\ event.type = "FocusChanged"
  /\ event.to[1] # event.from[1]
  /\ state[event.to[1]] = "Focused"
  /\ state[event.from[1]] # "Focused"

\* C9: with a cyclic focus_parent relation, the first resolution that
\* traverses both menus of the cycle (the root_path of a FocusOn or of the
\* initial focus, or a ScopeMove that bubbles out of a menu of the cycle)
\* aborts with the cycle panic instead of returning a NavEvent.
InCycle(f) == f \in Focusables /\ ~root_path(f).ok
Bubbles(f) ==
  /\ parent_menu(f) # 0
  /\ ~is_scope(parent_menu(f))
  /\ G.fp[parent_menu(f)] # 0
C9_CycleAborts ==
  [][/\ (/\ ListenStep
          /\ ~skipped(lock_reason, request')
          /\ \/ /\ request'.kind = "FocusOn"
                /\ InCycle(focused_of_request) \/ InCycle(request'.target)
             \/ /\ request'.kind = "ScopeMove"
                /\ InCycle(focused_of_request)
                /\ Bubbles(focused_of_request))
          => halted' = "panic"
     /\ (/\ phase = "first"
          /\ phase' # "first"
          /\ FocusedSet = {}
          /\ InCycle(pick_first_focused(state, active_child)))
          => halted' = "panic"]_vars

\* C10: every call to resolve terminates, on a cyclic graph too: it returns
\* a NavEvent or aborts with the cycle panic; root_path, focus_deep and the
\* bubbling of ScopeMove never loop forever.
C10_ResolveTerminates == halted # "hang"

\* ------------------------------------------------ functions on their own
\* The variables of the navigation while a function is called on its own on
\* the graph g with the focusable states st.
nav == <<graph, state, active_child, lock_reason, phase, unread, handled,
         computed_focused, request, event, halted, first_set, locked_at>>
StandbyOn(g, st) ==
  /\ graph = g
  /\ state = st
  /\ active_child = insert_tree_menus(st)
  /\ lock_reason = NoLock
  /\ phase = "idle"
  /\ unread = 0
  /\ handled = 0
  /\ computed_focused = 0
  /\ request = NoRequest
  /\ event = NoEvent
  /\ halted = "no"
  /\ first_set = FALSE
  /\ locked_at = NotLocked
AllInert(g) == [f \in {e \in 1..g.n : g.kind[e] = "focusable"} |-> "Inert"]

\* trim_common_tail called on two breadcrumbs.
Breadcrumbs == UNION {[1..n -> 1..MaxCrumb] : n \in 1..MaxBreadcrumb}
InitTrim ==
  /\ StandbyOn(TreeGraph, AllInert(TreeGraph))
  /\ input \in Breadcrumbs \X Breadcrumbs
  /\ output = <<>>
  /\ applied = FALSE
  /\ tree = NoTree
  /\ branch_ids = {}
CallTrim ==
  /\ ~applied
  /\ applied' = TRUE
  /\ output' = trim_common_tail(input[1], input[2])
  /\ UNCHANGED <<nav, input, tree, branch_ids>>
NextTrim == CallTrim
SpecTrim == InitTrim /\ [][NextTrim]_vars

Last(s) == s[Len(s)]
MinLen(v1, v2) == IF Len(v1) <= Len(v2) THEN Len(v1) ELSE Len(v2)
\* The number of mutually identical elements at the end of v1 and v2.
CommonTail(v1, v2) ==
  CHOOSE k \in 0..MinLen(v1, v2) :
    /\ \A i \in 1..k : v1[Len(v1) - i + 1] = v2[Len(v2) - i + 1]
    /\ k = MinLen(v1, v2) \/ v1[Len(v1) - k] # v2[Len(v2) - k]
WithoutTail(v, k) == SubSeq(v, 1, Len(v) - k)

PlaneGraph(ps, wraps, bnd, edges) ==
  [ n      |-> Len(ps) + 1,
    parent |-> <<0>> \o [i \in 1..Len(ps) |-> 1],
    kind   |-> <<"menu">> \o [i \in 1..Len(ps) |-> "focusable"],
    fp     |-> [i \in 1..(Len(ps) + 1) |-> 0],
    scope  |-> {},
    wrap   |-> IF wraps THEN {1} ELSE {},
    action |-> <<"-">> \o [i \in 1..Len(ps) |-> "Normal"],
    pos    |-> << <<0, 0>> >> \o ps,
    bnd    |-> bnd,
    edges  |-> edges ]
Points == {0, 10, 20} \X {0, 10}
PlaneGraphs ==
  {PlaneGraph(ps, wraps, bnd, edges) :
     ps \in [1..PlaneSize -> Points], wraps \in BOOLEAN, bnd \in BOOLEAN,
     edges \in {UpdatedBoundaries, ScreenBoundaries}}
\* focused has the focus, at most one other focusable is Blocked.
PlaneStates(g, focused) ==
  {[f \in 2..g.n |-> IF f = focused THEN "Focused"
                     ELSE IF f = blocked THEN "Blocked" ELSE "Inert"] :
     blocked \in (1..g.n) \ {focused}}
Init2d ==
  /\ \E g \in PlaneGraphs :
       \E focused \in 2..g.n :
         /\ g.bnd \/ g.edges = UpdatedBoundaries
         /\ \E st \in PlaneStates(g, focused) : StandbyOn(g, st)
         /\ input \in {[focused |-> focused, direction |-> d] : d \in Directions}
  /\ output = <<>>
  /\ applied = FALSE
  /\ tree = NoTree
  /\ branch_ids = {}
Call2d ==
  /\ ~applied
  /\ applied' = TRUE
  /\ output' =
       [to |-> resolve_2d(input.focused, input.direction, cycles_of(1),
                          focusables_of(1, state)),
        ev |-> resolve(input.focused, Req("Move", input.direction, 0), state,
                       active_child, lock_reason, <<>>).ev]
  /\ UNCHANGED <<nav, input, tree, branch_ids>>
Next2d == Call2d
Spec2d == Init2d /\ [][Next2d]_vars

\* The siblings of focused that lie in direction from it.
Candidates(focused, direction) ==
  {c \in Focusables \ {focused} :
     /\ state[c] # "Blocked"
     /\ is_in(direction, G.pos[focused], G.pos[c])}

\* C12: the default resolve_2d never returns the focused entity itself, in
\* the direct search and in the wrap-around search.
C12_NeverFocused == applied => output.to # input.focused

OnDiagonal(p, q) ==
  /\ p # q
  /\ \/ q[1] - p[1] = q[2] - p[2]
     \/ q[1] - p[1] = p[2] - q[2]
C14_OneDirection ==
  applied =>
    \A c \in Focusables :
      G.pos[c] # G.pos[input.focused] =>
        /\ Cardinality({d \in Directions :
                          is_in(d, G.pos[input.focused], G.pos[c])}) = 1
        /\ OnDiagonal(G.pos[input.focused], G.pos[c]) =>
             /\ \/ is_in("North", G.pos[input.focused], G.pos[c])
                \/ is_in("South", G.pos[input.focused], G.pos[c])
             /\ ~is_in("East", G.pos[input.focused], G.pos[c])
             /\ ~is_in("West", G.pos[input.focused], G.pos[c])

\* C15: in a wrapping 2d menu whose focusables lie on one row at x = 0, 10
\* and 20, with screen boundaries that enclose them, Move(West) from the
\* leftmost one focuses the rightmost one and Move(East) from the rightmost
\* one focuses the leftmost one.
OnOneRow ==
  /\ {G.pos[f][1] : f \in Focusables} = {0, 10, 20}
  /\ \A f \in Focusables : G.pos[f][2] = G.pos[input.focused][2]
  /\ \A f \in Focusables : state[f] # "Blocked"
Enclosed ==
  /\ G.bnd
  /\ \A f \in Focusables : \A i \in 1..2 :
       /\ G.edges.position[i] + G.edges.scale * G.edges.min[i] <= G.pos[f][i]
       /\ G.pos[f][i] <= G.edges.position[i] + G.edges.scale * G.edges.max[i]
C15_RowWraps ==
  (applied /\ cycles_of(1) /\ OnOneRow /\ Enclosed) =>
    /\ (input.direction = "West" /\ G.pos[input.focused][1] = 0) =>
         (output.to # 0 /\ G.pos[output.to][1] = 20
          /\ output.ev = FocusChanged(<<output.to>>, <<input.focused>>))
    /\ (input.direction = "East" /\ G.pos[input.focused][1] = 20) =>
         (output.to # 0 /\ G.pos[output.to][1] = 0
          /\ output.ev = FocusChanged(<<output.to>>, <<input.focused>>))

\* C16 as stated: when Move finds no candidate in a wrapping menu and there
\* is no ScreenBoundaries, resolve_2d still wraps, so that the request
\* changes the focus whenever there is another sibling.
C16_WrapsWithoutBoundaries ==
  (/\ applied /\ cycles_of(1) /\ ~G.bnd
   /\ Candidates(input.focused, input.direction) = {}
   /\ \E c \in Focusables \ {input.focused} : state[c] # "Blocked") =>
    /\ output.to \notin {0, input.focused}
    /\ output.ev = FocusChanged(<<output.to>>, <<input.focused>>)
\* C16: when Move finds no candidate in a wrapping menu and there is no
\* ScreenBoundaries, resolve_2d does not wrap: it returns None and the Move
\* resolves to NoChanges.
C16_NoWrapWithoutBoundaries ==
  (/\ applied /\ cycles_of(1) /\ ~G.bnd
   /\ Candidates(input.focused, input.direction) = {}) =>
    /\ output.to = 0
    /\ output.ev = NoChanges(<<input.focused>>, Req("Move", input.direction, 0))
\* A Move from the end of a row of a wrapping menu, without ScreenBoundaries.
C16_Witness ==
  /\ applied /\ cycles_of(1) /\ ~G.bnd
  /\ Candidates(input.focused, input.direction) = {}
  /\ \E c \in Focusables \ {input.focused} :
       state[c] # "Blocked" /\ G.pos[c] # G.pos[input.focused]
  /\ output.ev.type = "NoChanges"

\* --------------------------------------------------- navigation in a grid
\* A 2d menu (entity 1) whose nine focusables (entities 2..10) form a 3x3
\* grid; any of them may be constructed with Focusable::prioritized().
GridGraphs ==
  {PlaneGraph(<< <<0, 0>>, <<10, 0>>, <<20, 0>>, <<0, 10>>, <<10, 10>>,
                 <<20, 10>>, <<0, 20>>, <<10, 20>>, <<20, 20>> >>,
              wraps, bnd, UpdatedBoundaries) :
     wraps \in BOOLEAN, bnd \in BOOLEAN}
InitGrid ==
  /\ \E g \in GridGraphs :
       \E st \in [2..g.n -> {"Inert", "Prioritized"}] :
         /\ Cardinality({f \in 2..g.n : st[f] = "Prioritized"})
              <= MaxInitPrioritized + 1
         /\ StandbyOn(g, st)
  /\ input = <<>>
  /\ output = <<>>
  /\ applied = FALSE
  /\ tree = NoTree
  /\ branch_ids = {}
SpecGrid == InitGrid /\ [][Next]_vars

\* Move(North) from a in the current state, then Move(South) from where it
\* led: the events and the states, as listen_nav_requests computes them.
NorthOf(a) ==
  resolve(a, Req("Move", "North", 0), state, active_child, NoLock, <<>>).ev
AfterNorth(a) == Applied(NorthOf(a), state, active_child)
SouthBack(a) ==
  resolve(NorthOf(a).to[1], Req("Move", "South", 0), AfterNorth(a).st,
          AfterNorth(a).ac, NoLock, <<>>).ev
AfterSouth(a) == Applied(SouthBack(a), AfterNorth(a).st, AfterNorth(a).ac)
ChangesFocus(ev) == ev.type = "FocusChanged" /\ ev.to[1] # ev.from[1]

SiblingLists ==
  {v \in UNION {[1..n -> 1..MaxSiblings] : n \in 1..MaxSiblings} :
     \A i, j \in 1..Len(v) : v[i] = v[j] => i = j}
InitScope ==
  /\ StandbyOn(TreeGraph, AllInert(TreeGraph))
  /\ \E v \in SiblingLists :
       input \in [siblings : {v}, at : 0..(Len(v) - 1), cycles : BOOLEAN,
                  direction : {"Previous", "Next"}]
  /\ output = <<>>
  /\ applied = FALSE
  /\ tree = NoTree
  /\ branch_ids = {}
CallScope ==
  /\ ~applied
  /\ applied' = TRUE
  /\ output' = [index |-> resolve_index(input.at, input.cycles,
                                        input.direction,
                                        Len(input.siblings) - 1),
                to |-> resolve_scope(input.siblings[input.at + 1],
                                     input.direction, input.cycles,
                                     input.siblings)]
  /\ UNCHANGED <<nav, input, tree, branch_ids>>
NextScope == CallScope
SpecScope == InitScope /\ [][NextScope]_vars

\* C18: with n siblings and the focused one at index i, Previous at i = 0
\* selects index n-1 if the menu wraps and nothing otherwise, Next at
\* i = n-1 selects index 0 if the menu wraps and nothing otherwise, any other
\* case selects i-1 resp. i+1; a selected index is within 0..n-1 and is the
\* index of the sibling resolve_scope returns.
C18_ScopeIndex ==
  applied =>
    /\ output.index =
         (CASE input.direction = "Previous" /\ input.at = 0 ->
                 IF input.cycles THEN Len(input.siblings) - 1 ELSE -1
            [] input.direction = "Next"
                 /\ input.at = Len(input.siblings) - 1 ->
                 IF input.cycles THEN 0 ELSE -1
            [] input.direction = "Previous" /\ input.at # 0 -> input.at - 1
            [] OTHER -> input.at + 1)
    /\ output.index \in {-1} \cup (0..(Len(input.siblings) - 1))
    /\ output.to =
         (IF output.index = -1 THEN 0
          ELSE input.siblings[output.index + 1])
\* Previous from the first of four siblings of a wrapping menu selected the
\* last one.
C18_Witness ==
  /\ applied
  /\ Len(input.siblings) = 4
  /\ input.at = 0
  /\ input.cycles
  /\ input.direction = "Previous"
  /\ output.to = input.siblings[4]

\* ----------------------------------------------- requests and menu settings
\* C19: a Move request resolved while the innermost menu enclosing the
\* focused element is a scope menu gives NoChanges and changes neither a
\* Focusable state, nor an active_child, nor the NavLock.
C19_MoveInScope ==
  [][(/\ ListenStep
      /\ ~skipped(lock_reason, request')
      /\ request'.kind = "Move"
      /\ focused_of_request \in Focusables
      /\ parent_menu(focused_of_request) # 0
      /\ is_scope(parent_menu(focused_of_request)))
     => (/\ event' = NoChanges(<<focused_of_request>>, request')
         /\ UNCHANGED <<state, active_child, lock_reason, halted>>)]_vars
\* A Move was answered by NoChanges in a scope menu holding other siblings.
C19_Witness ==
  /\ request.kind = "Move"
  /\ event.type = "NoChanges"
  /\ is_scope(parent_menu(event.from[1]))
  /\ Len(focusables_of(parent_menu(event.from[1]), state)) > 1

\* The event ev of a resolution started one level up, as it comes out of the
\* resolution started at focused.
Bubbled(ev, focused) ==
  IF ev.type \in {"FocusChanged", "NoChanges"}
  THEN [ev EXCEPT !.from = <<focused>> \o @]
  ELSE ev
\* C20: a ScopeMove resolved from a focusable of a menu that is not a scope
\* menu gives the event the same ScopeMove gives from the focus_parent of
\* that menu, with the focusable put in front of its from; it gives NoChanges
\* when the focusable has no enclosing menu or that menu has no focus_parent.
C20_ScopeMoveBubbles ==
  \A f \in Focusables : \A d \in ScopeDirections :
    \/ parent_menu(f) # 0 /\ is_scope(parent_menu(f))
    \/ resolve(f, Req("ScopeMove", d, 0), state, active_child, lock_reason,
               <<>>).ev =
         (IF parent_menu(f) = 0 \/ G.fp[parent_menu(f)] = 0
          THEN [type |-> "NoChanges", from |-> <<f>>, to |-> <<>>,
                request |-> Req("ScopeMove", d, 0), reason |-> NoLock]
          ELSE Bubbled(resolve(G.fp[parent_menu(f)], Req("ScopeMove", d, 0),
                               state, active_child, lock_reason, <<>>).ev, f))
\* A ScopeMove from a menu that is not a scope menu moved the focus in the
\* scope menu above it.
C20_Witness ==
  /\ request.kind = "ScopeMove"
  /\ event.type = "FocusChanged"
  /\ Len(event.from) >= 2
  /\ ~is_scope(parent_menu(event.from[1]))
  /\ is_scope(parent_menu(event.from[Len(event.from)]))

\* The event of ScopeMove(d) resolved from the focusable f in the current
\* state.
ScopeMoved(f, d) ==
  resolve(f, Req("ScopeMove", d, 0), state, active_child, lock_reason, <<>>).ev
\* C21: when ScopeMove resolves to FocusChanged on an acyclic graph, the
\* first element of to is a leaf (no menu has it as focus_parent), every
\* element of to but the last is the active_child of the menu whose
\* focus_parent is the next element, and the last is a sibling of a scope
\* menu.
C21_ScopeMoveToLeaf ==
  Acyclic =>
    \A f \in Focusables : \A d \in ScopeDirections :
      ScopeMoved(f, d).type = "FocusChanged" =>
        /\ child_menu(ScopeMoved(f, d).to[1]) = 0
        /\ \A i \in 1..(Len(ScopeMoved(f, d).to) - 1) :
             /\ child_menu(ScopeMoved(f, d).to[i + 1]) # 0
             /\ ScopeMoved(f, d).to[i] =
                  active_child[child_menu(ScopeMoved(f, d).to[i + 1])]
        /\ Contains(focusables_of(parent_menu(Last(ScopeMoved(f, d).to)),
                                  state),
                    Last(ScopeMoved(f, d).to))
        /\ is_scope(parent_menu(Last(ScopeMoved(f, d).to)))
\* A ScopeMove of an acyclic graph moved the focus to a leaf below the
\* selected sibling of the scope menu.
C21_Witness ==
  /\ Acyclic
  /\ request.kind = "ScopeMove"
  /\ event.type = "FocusChanged"
  /\ Len(event.to) >= 2
  /\ child_menu(event.to[1]) = 0
  /\ state[event.to[1]] = "Focused"

\* C22: Action resolved from a focusable f whose action is Normal gives
\* FocusChanged with from = [f] and to = [active_child of m, f] if some menu
\* m has f as focus_parent, and NoChanges if no menu has.
C22_ActionNormal ==
  \A f \in Focusables :
    G.action[f] = "Normal" =>
      IF \E m \in Menus : G.fp[m] = f
      THEN \E m \in Menus :
             /\ G.fp[m] = f
             /\ resolve(f, Req("Action", "-", 0), state, active_child,
                        lock_reason, <<>>) =
                  [ev |-> [type |-> "FocusChanged", from |-> <<f>>,
                           to |-> <<active_child[m], f>>,
                           request |-> NoRequest, reason |-> NoLock],
                   lock |-> lock_reason]
      ELSE resolve(f, Req("Action", "-", 0), state, active_child,
                   lock_reason, <<>>) =
             [ev |-> [type |-> "NoChanges", from |-> <<f>>, to |-> <<>>,
                      request |-> Req("Action", "-", 0), reason |-> NoLock],
              lock |-> lock_reason]
\* An Action on a focusable with the Normal action entered the menu below it.
C22_Witness ==
  /\ request.kind = "Action"
  /\ event.type = "FocusChanged"
  /\ G.action[event.from[1]] = "Normal"
  /\ event.to = <<active_child[child_menu(event.from[1])], event.from[1]>>
  /\ state[event.to[1]] = "Focused"

\* C23: Action resolved from a focusable whose action is Cancel gives what
\* Cancel resolved from it in the same state gives: the same event, the same
\* NavLock, and the same Focusable states and active_child once applied.
C23_ActionCancel ==
  \A f \in Focusables :
    G.action[f] = "Cancel" =>
      /\ resolve(f, Req("Action", "-", 0), state, active_child, lock_reason,
                 <<>>) =
           resolve(f, Req("Cancel", "-", 0), state, active_child,
                   lock_reason, <<>>)
      /\ resolve(f, Req("Action", "-", 0), state, active_child, lock_reason,
                 <<>>).ev.type \in {"FocusChanged", "NoChanges"}
      /\ Applied(resolve(f, Req("Action", "-", 0), state, active_child,
                         lock_reason, <<>>).ev, state, active_child) =
           Applied(resolve(f, Req("Cancel", "-", 0), state, active_child,
                           lock_reason, <<>>).ev, state, active_child)
\* An Action on a focusable with the Cancel action left the menu it is in.
C23_Witness ==
  /\ request.kind = "Action"
  /\ event.type = "FocusChanged"
  /\ G.action[event.from[1]] = "Cancel"
  /\ event.to = <<G.fp[parent_menu(event.from[1])]>>
  /\ state[event.to[1]] = "Focused"

\* C24: Action resolved from a focusable whose action is Lock sets the
\* reason of the NavLock to Focusable(focused) and emits Locked with that
\* reason, changing no Focusable state and no active_child; as long as the
\* NavLock holds that reason, a request other than Unlock changes nothing.
C24_ActionLock ==
  [][/\ (/\ ListenStep
          /\ ~skipped(lock_reason, request')
          /\ request'.kind = "Action"
          /\ focused_of_request \in Focusables
          /\ G.action[focused_of_request] = "Lock")
         => (/\ lock_reason' = [kind |-> "Focusable", e |-> focused_of_request]
             /\ event'.type = "Locked"
             /\ event'.reason = lock_reason'
             /\ UNCHANGED <<state, active_child>>)
     /\ (/\ ListenStep
          /\ lock_reason.kind = "Focusable"
          /\ request'.kind # "Unlock")
         => UNCHANGED <<state, active_child, lock_reason>>]_vars
\* A request other than Unlock was read after an Action on a lock focusable
\* had locked the navigation.
C24_Witness ==
  /\ lock_reason.kind = "Focusable"
  /\ G.action[lock_reason.e] = "Lock"
  /\ state[lock_reason.e] = "Focused"
  /\ handled = 2
  /\ request.kind \in {"Move", "Cancel", "Action", "FocusOn"}
  /\ event = NoEvent

\* C25: Cancel resolved from the focused f gives FocusChanged with
\* from = [f, p] and to = [p] when the innermost menu enclosing f has the
\* focus_parent p, and applying it leaves p Focused and f Prioritized; it
\* gives NoChanges and changes nothing when f has no enclosing menu or that
\* menu has no focus_parent.
C25_Cancel ==
  [][(/\ ListenStep
      /\ ~skipped(lock_reason, request')
      /\ request'.kind = "Cancel"
      /\ focused_of_request \in Focusables)
     => IF parent_menu(focused_of_request) # 0
           /\ G.fp[parent_menu(focused_of_request)] # 0
        THEN /\ event'.type = "FocusChanged"
             /\ event'.from = <<focused_of_request,
                                G.fp[parent_menu(focused_of_request)]>>
             /\ event'.to = <<G.fp[parent_menu(focused_of_request)]>>
             /\ state'[G.fp[parent_menu(focused_of_request)]] = "Focused"
             /\ state'[focused_of_request] = "Prioritized"
        ELSE /\ event'.type = "NoChanges"
             /\ event'.from = <<focused_of_request>>
             /\ UNCHANGED <<state, active_child, lock_reason>>]_vars
\* A Cancel went up from a menu to its focus_parent.
C25_Witness ==
  /\ request.kind = "Cancel"
  /\ event.type = "FocusChanged"
  /\ Len(event.from) = 2
  /\ event.to = <<event.from[2]>>
  /\ state[event.from[2]] = "Focused"
  /\ state[event.from[1]] = "Prioritized"

\* C26: a request that resolves to NoChanges changes no Focusable state, no
\* active_child and not the NavLock, and the same request resolved again in
\* the state it leaves gives the same NoChanges.
C26_NoChangesStable ==
  /\ [][(ListenStep /\ event'.type = "NoChanges")
          => UNCHANGED <<state, active_child, lock_reason>>]_vars
  /\ [](event.type = "NoChanges" =>
          resolve(focused_of_request, request, state, active_child,
                  lock_reason, <<>>).ev = event)
\* A Cancel that could go no further up was answered by NoChanges.
C26_Witness ==
  /\ request.kind = "Cancel"
  /\ event.type = "NoChanges"
  /\ event.request = request
  /\ state[event.from[1]] = "Focused"

\* C27: Unlock read while the NavLock holds a reason clears the NavLock and
\* emits Unlocked with that reason, NavRequest or Focusable(e); Unlock read
\* while it holds none emits NoChanges and changes neither the NavLock, nor a
\* Focusable state, nor an active_child.
C27_Unlock ==
  [][(ListenStep /\ request'.kind = "Unlock")
     => IF lock_reason # NoLock
        THEN /\ lock_reason' = NoLock
             /\ event'.type = "Unlocked"
             /\ event'.reason = lock_reason
             /\ lock_reason.kind \in {"NavRequest", "Focusable"}
             /\ lock_reason.kind = "Focusable"
                  => G.action[lock_reason.e] = "Lock"
             /\ UNCHANGED <<state, active_child>>
        ELSE /\ event'.type = "NoChanges"
             /\ event'.request = request'
             /\ UNCHANGED <<state, active_child, lock_reason>>]_vars
\* An Unlock released the lock an Action on a lock focusable had taken.
C27_Witness ==
  /\ request.kind = "Unlock"
  /\ event.type = "Unlocked"
  /\ event.reason.kind = "Focusable"
  /\ G.action[event.reason.e] = "Lock"
  /\ lock_reason = NoLock

\* C28: Lock read while the NavLock holds no reason sets the reason
\* NavRequest and emits Locked with it, changing no Focusable state and no
\* active_child; Lock while the NavLock holds a reason changes nothing and
\* keeps that reason, in the loop as in resolve.
C28_Lock ==
  /\ [][(ListenStep /\ request'.kind = "Lock")
          => IF lock_reason = NoLock
             THEN /\ lock_reason' = [kind |-> "NavRequest", e |-> 0]
                  /\ event'.type = "Locked"
                  /\ event'.reason = lock_reason'
                  /\ UNCHANGED <<state, active_child>>
             ELSE UNCHANGED <<state, active_child, lock_reason>>]_vars
  /\ [](lock_reason # NoLock =>
          \A f \in Focusables :
            /\ resolve(f, Req("Lock", "-", 0), state, active_child,
                       lock_reason, <<>>).lock = lock_reason
            /\ resolve(f, Req("Lock", "-", 0), state, active_child,
                       lock_reason, <<>>).ev.type = "NoChanges")
\* A Lock request was read while a lock focusable held the navigation locked.
C28_Witness ==
  /\ request.kind = "Lock"
  /\ event = NoEvent
  /\ lock_reason.kind = "Focusable"
  /\ handled = 2

\* ------------------------------------------------- the siblings of a menu
\* Menu 1 holds the focusable 2, the focusable 3 inside 2, the plain node 4
\* with the focusable 5 and the plain node 6, the focusable 7 inside 6, and
\* the menu 8 {9} reachable from 2.
NestedGraph ==
  [ n      |-> 9,
    parent |-> <<0, 1, 2, 1, 4, 4, 6, 1, 8>>,
    kind   |-> <<"menu", "focusable", "focusable", "plain", "focusable",
                 "plain", "focusable", "menu", "focusable">>,
    fp     |-> <<0, 0, 0, 0, 0, 0, 0, 2, 0>>,
    scope  |-> {},
    wrap   |-> {},
    action |-> <<"-", "Normal", "Normal", "-", "Normal", "-", "Normal", "-",
                 "Normal">>,
    pos    |-> << <<0, 0>>, <<0, 0>>, <<10, 0>>, <<0, 0>>, <<20, 0>>,
                  <<0, 0>>, <<0, 10>>, <<0, 0>>, <<10, 10>> >>,
    bnd    |-> FALSE,
    edges  |-> ScreenBoundaries ]
\* The same hierarchy where the entities of S carry no Focusable.
NestedGraphWithout(S) ==
  [NestedGraph EXCEPT
     !.kind = [e \in 1..NestedGraph.n |-> IF e \in S THEN "plain" ELSE @[e]]]
\* The application spawned the hierarchy with MenuBuilder components, any of
\* the focusables being Blocked; no TreeMenu exists yet.
InitSiblings ==
  /\ \E S \in SUBSET {5, 7, 9} : graph = NestedGraphWithout(S)
  /\ state \in [Focusables -> {"Inert", "Blocked"}]
  /\ active_child = [m \in Menus |-> 0]
  /\ phase = "build"
  /\ lock_reason = NoLock
  /\ unread = 0
  /\ handled = 0
  /\ computed_focused = 0
  /\ request = NoRequest
  /\ event = NoEvent
  /\ halted = "no"
  /\ first_set = FALSE
  /\ locked_at = NotLocked
  /\ input = 0
  /\ output = <<>>
  /\ applied = FALSE
  /\ tree = NoTree
  /\ branch_ids = {}
\* A faulty insert_tree_menus that accepts a menu without a child.
BuildMenusAnyway ==
  /\ phase = "build"
  /\ phase' = "idle"
  /\ active_child' = insert_tree_menus(state)
  /\ UNCHANGED <<graph, state, lock_reason, unread, handled,
                 computed_focused, request, event, halted, first_set,
                 locked_at, called>>
\* The system insert_tree_menus: children.first().expect(no_focus_msg)
\* panics on a menu for which focusables_of finds nothing.
BuildMenus ==
  /\ phase = "build"
  /\ phase' = "idle"
  /\ IF \E m \in Menus : focusables_of(m, state) = <<>>
     THEN halted' = "panic" /\ UNCHANGED active_child
     ELSE halted' = halted /\ active_child' = insert_tree_menus(state)
  /\ UNCHANGED <<graph, state, lock_reason, unread, handled,
                 computed_focused, request, event, first_set, locked_at,
                 called>>
\* focusables_of called on a menu once the TreeMenu components exist.
CallSiblings ==
  /\ phase = "idle"
  /\ halted = "no"
  /\ ~applied
  /\ applied' = TRUE
  /\ \E m \in Menus :
       /\ input' = m
       /\ output' = focusables_of(m, state)
  /\ UNCHANGED <<nav, tree, branch_ids>>
NextSiblings == BuildMenus \/ CallSiblings
SpecSiblings == InitSiblings /\ [][NextSiblings]_vars

\* C29 as stated: focusables_of(menu) returns, each once, exactly the
\* Focusables that are not Blocked and lie below menu with no other menu in
\* between, whether they are direct children or nested inside a descendant
\* that is not a menu; so a focusable of the menu that is not Blocked is
\* exactly once among the siblings.
C29_SiblingsOfMenu ==
  applied =>
    /\ {output[i] : i \in 1..Len(output)} =
         {f \in Focusables : state[f] # "Blocked" /\ parent_menu(f) = input}
    /\ \A f \in Focusables :
         (state[f] # "Blocked" /\ parent_menu(f) = input)
           => Cardinality({i \in 1..Len(output) : output[i] = f}) = 1

\* C30: a menu below which no Focusable lies without another menu in between
\* makes insert_tree_menus panic when it creates the TreeMenu, and no menu is
\* ever created with an empty set of siblings.
C30_EmptyMenuIsFatal ==
  phase # "build" =>
    /\ (\E m \in Menus : {f \in Focusables : parent_menu(f) = m} = {})
         => halted = "panic"
    /\ halted = "no" => \A m \in Menus : focusables_of(m, state) # <<>>
\* insert_tree_menus met a menu without any Focusable below it.
C30_Witness ==
  /\ phase = "idle"
  /\ halted = "panic"
  /\ {f \in Focusables : parent_menu(f) = 8} = {}

\* C31: Move resolved from a focusable without an enclosing menu gives what
\* resolve_2d finds among all the Focusables of the graph that are not
\* Blocked, those inside menus included, with cycles = true: FocusChanged to
\* it, or NoChanges when it finds none.
C31_MoveWithoutMenu ==
  \A f \in Focusables : \A d \in Directions :
    parent_menu(f) = 0 =>
      /\ resolve_2d(f, d, TRUE,
                    SortedSeq({e \in Focusables : state[e] # "Blocked"})) # 0
           => resolve(f, Req("Move", d, 0), state, active_child, lock_reason,
                      <<>>).ev =
                [type |-> "FocusChanged", from |-> <<f>>,
                 to |-> <<resolve_2d(f, d, TRUE,
                            SortedSeq({e \in Focusables :
                                         state[e] # "Blocked"}))>>,
                 request |-> NoRequest, reason |-> NoLock]
      /\ resolve_2d(f, d, TRUE,
                    SortedSeq({e \in Focusables : state[e] # "Blocked"})) = 0
           => resolve(f, Req("Move", d, 0), state, active_child, lock_reason,
                      <<>>).ev.type = "NoChanges"
\* A Move from a focusable outside of any menu wrapped around the screen to
\* a focusable inside a menu.
C31_Witness ==
  /\ request.kind = "Move"
  /\ event.type = "FocusChanged"
  /\ parent_menu(event.from[1]) = 0
  /\ parent_menu(event.to[1]) # 0
  /\ ~is_in(request.dir, G.pos[event.from[1]], G.pos[event.to[1]])
  /\ state[event.to[1]] = "Focused"

\* C32 as stated: resolving and applying a request neither sets a Focusable
\* to Blocked nor changes the state of a Blocked one: the set of the Blocked
\* Focusables is the same before and after.
C32_BlockedSetKept ==
  [][ListenStep
     => {f \in Focusables : state'[f] = "Blocked"} =
        {f \in Focusables : state[f] = "Blocked"}]_vars

\* ------------------------------------------------- two requests in a row
\* The request r resolved from the focusable f in the current state, the
\* state once its event is applied, then the request r2 resolved from the
\* focus it left, and the state once that event is applied.
Resolved(f, r) == resolve(f, r, state, active_child, lock_reason, <<>>)
ThenState(f, r) == Applied(Resolved(f, r).ev, state, active_child)
ResolvedNext(f, r, r2) ==
  resolve(ThenState(f, r).focus, r2, ThenState(f, r).st, ThenState(f, r).ac,
          Resolved(f, r).lock, <<>>)
ThenStateNext(f, r, r2) ==
  Applied(ResolvedNext(f, r, r2).ev, ThenState(f, r).st, ThenState(f, r).ac)

block_any(st, e) == [st |-> [st EXCEPT ![e] = "Blocked"], ret |-> TRUE]
\* Focusable::block and Focusable::unblock called on the Focusable of e: the
\* states after the call and the bool it returns.
block(st, e) ==
  IF st[e] \in {"Inert", "Prioritized"}
  THEN [st |-> [st EXCEPT ![e] = "Blocked"], ret |-> TRUE]
  ELSE [st |-> st, ret |-> FALSE]
unblock(st, e) ==
  IF st[e] = "Blocked"
  THEN [st |-> [st EXCEPT ![e] = "Inert"], ret |-> TRUE]
  ELSE [st |-> st, ret |-> FALSE]
\* The application calls one of them on a focusable of a menu of three, in
\* any state with at most one Focused focusable.
InitBlock ==
  /\ \E st \in [2..4 -> {"Inert", "Prioritized", "Focused", "Active",
                          "Blocked"}] :
       /\ Cardinality({f \in 2..4 : st[f] = "Focused"}) <= 1
       /\ StandbyOn(PlaneGraph(<< <<0, 0>>, <<10, 0>>, <<20, 0>> >>, FALSE,
                               TRUE, UpdatedBoundaries), st)
  /\ input \in [op : {"block", "unblock"}, e : 2..4]
  /\ output = <<>>
  /\ applied = FALSE
  /\ tree = NoTree
  /\ branch_ids = {}
CallBlock ==
  /\ ~applied
  /\ applied' = TRUE
  /\ output' = IF input.op = "block" THEN block(state, input.e)
               ELSE unblock(state, input.e)
  /\ UNCHANGED <<nav, input, tree, branch_ids>>
NextBlock == CallBlock
SpecBlock == InitBlock /\ [][NextBlock]_vars

\* C34: block sets the state to Blocked and returns true iff the state was
\* Inert or Prioritized, unblock sets it to Inert and returns true iff it was
\* Blocked; otherwise the state is left as it was and false is returned.  No
\* other Focusable is changed.
C34_BlockUnblock ==
  applied =>
    /\ \A f \in (2..4) \ {input.e} : output.st[f] = state[f]
    /\ input.op = "block" =>
         /\ output.ret = (state[input.e] \in {"Inert", "Prioritized"})
         /\ output.st[input.e] = IF output.ret THEN "Blocked"
                                 ELSE state[input.e]
    /\ input.op = "unblock" =>
         /\ output.ret = (state[input.e] = "Blocked")
         /\ output.st[input.e] = IF output.ret THEN "Inert"
                                 ELSE state[input.e]
\* block was called on a Focused focusable and did nothing.
C34_Witness ==
  /\ applied
  /\ input.op = "block"
  /\ state[input.e] = "Focused"
  /\ output = [st |-> state, ret |-> FALSE]

\* ------------------------------------------------------------ first focus
\* C35 as stated: when no Focusable is Focused, one is Prioritized and all
\* the others are Inert, set_first_focused gives the focus to the Prioritized
\* one, sets the other Focusables of its root_path to Active and makes each
\* element of the root_path the active_child of its enclosing menu.
C35_FirstFocus ==
  [][\A p \in Focusables :
       (/\ phase = "first"
        /\ phase' # "first"
        /\ state[p] = "Prioritized"
        /\ \A f \in Focusables \ {p} : state[f] = "Inert")
       => (/\ state'[p] = "Focused"
           /\ event' = InitiallyFocused(p)
           /\ \A i \in 2..Len(root_path(p).path) :
                state'[root_path(p).path[i]] = "Active"
           /\ \A i \in 1..Len(root_path(p).path) :
                parent_menu(root_path(p).path[i]) # 0
                  => active_child'[parent_menu(root_path(p).path[i])] =
                       root_path(p).path[i])]_vars
\* C35: the same on a graph where the root_path of the Prioritized Focusable
\* meets no cycle.
C35_FirstFocusAcyclic ==
  [][\A p \in Focusables :
       (/\ phase = "first"
        /\ phase' # "first"
        /\ state[p] = "Prioritized"
        /\ \A f \in Focusables \ {p} : state[f] = "Inert"
        /\ root_path(p).ok)
       => (/\ state'[p] = "Focused"
           /\ event' = InitiallyFocused(p)
           /\ \A i \in 2..Len(root_path(p).path) :
                state'[root_path(p).path[i]] = "Active"
           /\ \A i \in 1..Len(root_path(p).path) :
                parent_menu(root_path(p).path[i]) # 0
                  => active_child'[parent_menu(root_path(p).path[i])] =
                       root_path(p).path[i])]_vars
\* set_first_focused focused a focusable of a submenu that is not the first
\* focusable of the graph, and activated the focusables leading to it.
C35_Witness ==
  /\ event.type = "InitiallyFocused"
  /\ handled = 0
  /\ event.to[1] # First(SortedSeq(Focusables))
  /\ Len(root_path(event.to[1]).path) >= 3
  /\ state[event.to[1]] = "Focused"
  /\ \A f \in Focusables :
       state[f] = (IF f = event.to[1] THEN "Focused"
                   ELSE IF Contains(root_path(event.to[1]).path, f)
                   THEN "Active" ELSE "Inert")

\* ----------------------------------------------------- applying an event
\* C36: applying FocusChanged {from, to} with from different from to leaves
\* the first of to Focused, the others of to Active, every element of to the
\* active_child of its enclosing menu, and every element of from that is not
\* in to Inert if it is the last of from, Prioritized otherwise; with from
\* equal to to nothing is changed.
C36_UpdateFocus ==
  [][(ListenStep /\ event'.type = "FocusChanged")
     => IF event'.from = event'.to
        THEN UNCHANGED <<state, active_child>>
        ELSE /\ state'[event'.to[1]] = "Focused"
             /\ \A i \in 2..Len(event'.to) : state'[event'.to[i]] = "Active"
             /\ \A i \in 1..Len(event'.to) :
                  parent_menu(event'.to[i]) # 0
                    => active_child'[parent_menu(event'.to[i])] = event'.to[i]
             /\ \A j \in 1..Len(event'.from) :
                  ~Contains(event'.to, event'.from[j])
                    => state'[event'.from[j]] =
                         (IF j = Len(event'.from) THEN "Inert"
                          ELSE "Prioritized")]_vars

\* ------------------------------------------------ the memory of the menus
\* The application spawned every focusable with Focusable::new().
InitInert == Init /\ \A f \in Focusables : state[f] = "Inert"
SpecInert == InitInert /\ [][Next]_vars

\* C37: from a graph where every Focusable is Inert, once the first focus is
\* set, every Focusable that is Focused, Active or Prioritized is the
\* active_child of its innermost enclosing menu.
C37_NonInertIsActiveChild ==
  first_set =>
    \A f \in Focusables :
      (state[f] \in {"Focused", "Active", "Prioritized"}
         /\ parent_menu(f) # 0)
        => active_child[parent_menu(f)] = f

\* C38 as stated: whenever a request resolves to FocusChanged, the first
\* element of to differs from the first element of from; a request that
\* cannot move the focus gives NoChanges.
C38_FocusChangedMoves ==
  (request.kind \in {"Move", "ScopeMove"} /\ event.type = "FocusChanged")
    => event.to[1] # event.from[1]

\* C39 as stated: a ScopeMove(Next) that resolves to FocusChanged, followed
\* by ScopeMove(Previous), returns the focus to the Focusable focused before,
\* wherever it is, leaf or not.
C39_NextPrevious ==
  \A f \in FocusedSet :
    Resolved(f, Req("ScopeMove", "Next", 0)).ev.type = "FocusChanged" =>
      /\ ResolvedNext(f, Req("ScopeMove", "Next", 0),
                      Req("ScopeMove", "Previous", 0)).ev.type = "FocusChanged"
      /\ ThenStateNext(f, Req("ScopeMove", "Next", 0),
                       Req("ScopeMove", "Previous", 0)).focus = f

\* C39: on an acyclic graph a ScopeMove(Next) that resolves to FocusChanged,
\* followed by ScopeMove(Previous), returns the focus to the Focusable before
\* when no menu has it as focus_parent, and otherwise to the leaf that the
\* active_child of the menus below it lead to.
C39_NextPreviousLeaf ==
  \A f \in FocusedSet :
    (/\ Acyclic
     /\ Resolved(f, Req("ScopeMove", "Next", 0)).ev.type = "FocusChanged") =>
      /\ ResolvedNext(f, Req("ScopeMove", "Next", 0),
                      Req("ScopeMove", "Previous", 0)).ev.type = "FocusChanged"
      /\ ThenStateNext(f, Req("ScopeMove", "Next", 0),
                       Req("ScopeMove", "Previous", 0)).focus =
           (IF child_menu(f) = 0 THEN f
            ELSE focus_deep(child_menu(f), active_child).path[1])
\* ScopeMove(Previous) brought the focus from a sibling of the scope menu to
\* a leaf below the previous sibling, from where ScopeMove(Next) leads back.
C39_Witness ==
  /\ Acyclic
  /\ handled = 2
  /\ request = Req("ScopeMove", "Previous", 0)
  /\ event.type = "FocusChanged"
  /\ Len(event.to) >= 2
  /\ state[event.to[1]] = "Focused"
  /\ Resolved(event.to[1], Req("ScopeMove", "Next", 0)).ev.to[1] =
       event.from[1]


\* ---------------------------------------------------------------------------
\* The generic Tree (generic/src/lib.rs).  An Option is a sequence: <<>> is
\* None and <<x>> is Some(x).  BranchId.index counts from 0 as in the code.

\* How high last_branch_version may get, and how many focusables a branch
\* may hold; the number of calls is far below usize::MAX.
MaxVersion == 4
MaxNavigables == 2
\* The values of T the application uses for focusables and nav_nodes.
TreeItems == 1..2

\* A faulty Branch::new that reuses the old version.
Branch_new_same(old_version, focusable, nav_node) ==
  [version |-> IF old_version = <<>> THEN 0 ELSE old_version[1],
   active |-> 0, nav_node |-> nav_node, focusables |-> <<focusable>>]
Branch_new(old_version, focusable, nav_node) ==
  [version |-> IF old_version = <<>> THEN 0 ELSE old_version[1] + 1,
   active |-> 0, nav_node |-> nav_node, focusables |-> <<focusable>>]

add_branch(t, focusable, nav_node) ==
  [tree |-> [last_branch_version |->
               Branch_new(<<t.last_branch_version>>, focusable,
                          nav_node).version,
             branches |->
               Append(t.branches,
                      Branch_new(<<t.last_branch_version>>, focusable,
                                 nav_node))],
   ret |-> [index |-> Len(t.branches),
            version |-> Branch_new(<<t.last_branch_version>>, focusable,
                                   nav_node).version]]

\* Tree::new drops the BranchId of the root branch.
Tree_new(focusable, root_node) == add_branch(NoTree, focusable, root_node).tree

add_navigable(t, branch_id, focusable) ==
  IF branch_id.index >= Len(t.branches)
  THEN [tree |-> t, ret |-> <<>>]
  ELSE IF t.branches[branch_id.index + 1].version # branch_id.version
  THEN [tree |-> t, ret |-> <<>>]
  ELSE [tree |-> [t EXCEPT !.branches[branch_id.index + 1].focusables =
                             Append(@, focusable)],
        ret |-> << <<>> >>]

replace_branches(t, extending, focusable, nav_node) ==
  IF extending.index >= Len(t.branches)
  THEN [tree |-> t, ret |-> <<>>]
  ELSE IF t.branches[extending.index + 1].version # extending.version
  THEN [tree |-> t, ret |-> <<>>]
  ELSE [tree |->
          add_branch([t EXCEPT !.branches = truncate(@, extending.index + 1)],
                     focusable, nav_node).tree,
        ret |->
          <<add_branch([t EXCEPT !.branches =
                                   truncate(@, extending.index + 1)],
                       focusable, nav_node).ret>>]

\* The first branch whose nav_node is node.
branch_of(t, node) ==
  IF \A i \in 1..Len(t.branches) : t.branches[i].nav_node # node
  THEN <<>>
  ELSE <<[index |-> (CHOOSE i \in 1..Len(t.branches) :
                       /\ t.branches[i].nav_node = node
                       /\ \A j \in 1..(i - 1) :
                            t.branches[j].nav_node # node) - 1,
          version |-> t.branches[
                        CHOOSE i \in 1..Len(t.branches) :
                          /\ t.branches[i].nav_node = node
                          /\ \A j \in 1..(i - 1) :
                               t.branches[j].nav_node # node].version]>>

\* A BranchId the application holds, with whether the branch it was handed
\* out for is still in the tree.
Held(id, live) == [index |-> id.index, version |-> id.version, live |-> live]

InitTree ==
  /\ StandbyOn(TreeGraph, AllInert(TreeGraph))
  /\ input = <<>>
  /\ output = <<>>
  /\ applied = FALSE
  /\ \E focusable \in TreeItems, root_node \in TreeItems :
       tree = Tree_new(focusable, root_node)
  /\ branch_ids = {}

AddNavigable ==
  /\ \E h \in branch_ids, focusable \in TreeItems :
       /\ \A i \in 1..Len(tree.branches) :
            Len(add_navigable(tree, h, focusable).tree.branches[i].focusables)
              <= MaxNavigables
       /\ input' = [op |-> "add_navigable", id |-> h, item |-> focusable]
       /\ output' = add_navigable(tree, h, focusable).ret
       /\ tree' = add_navigable(tree, h, focusable).tree
  /\ applied' = TRUE
  /\ UNCHANGED <<nav, branch_ids>>

AddBranch ==
  /\ tree.last_branch_version < MaxVersion
  /\ \E focusable \in TreeItems, nav_node \in TreeItems :
       /\ input' = [op |-> "add_branch", item |-> focusable,
                    node |-> nav_node]
       /\ output' = add_branch(tree, focusable, nav_node).ret
       /\ tree' = add_branch(tree, focusable, nav_node).tree
       /\ branch_ids' = branch_ids \union
            {Held(add_branch(tree, focusable, nav_node).ret, TRUE)}
  /\ applied' = TRUE
  /\ UNCHANGED nav

\* replace_branches removes the branches after the extended one: the ids
\* handed out for them are no longer live.
ReplaceBranches ==
  /\ tree.last_branch_version < MaxVersion
  /\ \E h \in branch_ids, focusable \in TreeItems, nav_node \in TreeItems :
       /\ input' = [op |-> "replace_branches", id |-> h, item |-> focusable,
                    node |-> nav_node]
       /\ output' = replace_branches(tree, h, focusable, nav_node).ret
       /\ tree' = replace_branches(tree, h, focusable, nav_node).tree
       /\ branch_ids' =
            IF replace_branches(tree, h, focusable, nav_node).ret = <<>>
            THEN branch_ids
            ELSE {IF b.index > h.index THEN Held(b, FALSE) ELSE b :
                    b \in branch_ids} \union
                 {Held(replace_branches(tree, h, focusable,
                                        nav_node).ret[1], TRUE)}
  /\ applied' = TRUE
  /\ UNCHANGED nav

BranchOf ==
  /\ \E node \in TreeItems :
       /\ input' = [op |-> "branch_of", node |-> node]
       /\ output' = branch_of(tree, node)
       /\ branch_ids' = branch_ids \union
            {Held(branch_of(tree, node)[i], TRUE) :
               i \in 1..Len(branch_of(tree, node))}
  /\ applied' = TRUE
  /\ UNCHANGED <<nav, tree>>

NextTree == AddNavigable \/ AddBranch \/ ReplaceBranches \/ BranchOf
SpecTree == InitTree /\ [][NextTree]_vars

\* C40: in the generic Tree the version of a new branch is above the version
\* of every branch of the tree and of every BranchId handed out, so
\* add_navigable with a BranchId whose branch was removed or replaced by
\* replace_branches returns None and leaves the tree unchanged, while with a
\* BranchId of a branch still present it returns Some(()) and appends the
\* focusable to exactly that branch.
C40_StaleBranchId ==
  /\ \A focusable \in TreeItems, nav_node \in TreeItems :
       /\ \A i \in 1..Len(tree.branches) :
            tree.branches[i].version <
              add_branch(tree, focusable, nav_node).ret.version
       /\ \A h \in branch_ids :
            h.version < add_branch(tree, focusable, nav_node).ret.version
  /\ \A h \in branch_ids, focusable \in TreeItems :
       IF h.live
       THEN /\ add_navigable(tree, h, focusable).ret = << <<>> >>
            /\ h.index < Len(tree.branches)
            /\ tree.branches[h.index + 1].version = h.version
            /\ add_navigable(tree, h, focusable).tree =
                 [tree EXCEPT !.branches[h.index + 1].focusables =
                                Append(@, focusable)]
       ELSE /\ add_navigable(tree, h, focusable).ret = <<>>
            /\ add_navigable(tree, h, focusable).tree = tree
\* add_navigable was called with the BranchId of a replaced branch whose
\* index is taken by a newer branch, and with the BranchId of a branch still
\* present in a tree that also holds a replaced one.
C40_Witness ==
  /\ applied
  /\ input.op = "add_navigable"
  /\ input.id.index < Len(tree.branches)
  /\ ~input.id.live
  /\ output = <<>>
  /\ \E h \in branch_ids :
       /\ h.live
       /\ h.index = input.id.index
       /\ Len(tree.branches[h.index + 1].focusables) > 1

====
